---- MODULE Spec2Model ----
(***************************************************************************)
(* Model of src/components/family/FamilyTree.tsx: the buildTree forest     *)
(* construction and the member lifecycle controller (fetch, delete with    *)
(* its permission / children checks and image cleanup, form success).      *)
(***************************************************************************)
EXTENDS Integers, Sequences, FiniteSets, TLC

VARIABLES
    members,         \* useState<FamilyMember[]>            (line 13)
    selectedMember,  \* useState<FamilyMember | null>       (line 14)
    editingMember,   \* useState<FamilyMember | null>       (line 15)
    showAddForm,     \* useState(false)                     (line 16)
    loading,         \* useState(true)                      (line 17)
    deletingMember,  \* useState<string | null>             (line 18)
    deleteSuccess,   \* useState(false)                     (line 19)
    auth,            \* useAuth(): currentUser and userData (line 20)
    effectDue,       \* the effect of lines 22-28 is still to run for the last render
    store,           \* documents of the 'familyMembers' collection
    fetches,         \* getDocs calls in flight
    resumes,         \* callers whose `await fetchMembers()` has returned, in order
    delOp,           \* the handleDeleteMember invocation in flight, and the last alert()
    timers,          \* setTimeout callbacks scheduled by a successful delete
    formCalls,       \* onSuccess callbacks the Add/Edit form still owes
    writes,          \* documents the Add/Edit form has written so far
    tpc,             \* buildTree: position of the run
    rootQ,           \* buildTree: filtered parentless members still to visit
    stack,           \* buildTree: buildNode frames, innermost last
    processed,       \* buildTree: the processed set            (line 58)
    roots            \* buildTree: the roots array              (line 57)

ctlVars == <<selectedMember, editingMember, showAddForm, loading, deletingMember,
             deleteSuccess, auth, effectDue, store, fetches, resumes, delOp, timers,
             formCalls, writes>>
treeVars == <<tpc, rootQ, stack, processed, roots>>
vars == <<members, selectedMember, editingMember, showAddForm, loading,
          deletingMember, deleteSuccess, auth, effectDue, store, fetches, resumes,
          delOp, timers, formCalls, writes, tpc, rootQ, stack, processed, roots>>

(***************************************************************************)
(* Bounds of the model.                                                    *)
(***************************************************************************)
MaxLen == 3        \* members of a collection handed to buildTree
MaxDocs == 2       \* document ids of the store the controller runs against
MaxFetches == 2    \* getDocs calls in flight at once
MaxPending == 1    \* onSuccess callbacks of the Add/Edit form outstanding at once
MaxWrites == 1     \* documents the Add/Edit form writes in one run

(***************************************************************************)
(* Values.  0 stands for an absent (undefined / null / empty) field.       *)
(***************************************************************************)
Absent == 0
NoUrl == <<>>

NoMember ==
    [id |-> Absent, parentId |-> Absent, spouseId |-> Absent,
     imageUrl |-> NoUrl, createdBy |-> Absent]

Member(i, p, s, u, c) ==
    [id |-> i, parentId |-> p, spouseId |-> s, imageUrl |-> u, createdBy |-> c]

(***************************************************************************)
(* Array helpers: the elements of s at the positions idx, in order         *)
(* (Array.prototype.filter keeps the positions its callback accepts).      *)
(***************************************************************************)
RECURSIVE PickFrom(_, _, _)
PickFrom(s, idx, i) ==
    IF i > Len(s) THEN <<>>
    ELSE (IF i \in idx THEN <<s[i]>> ELSE <<>>) \o PickFrom(s, idx, i + 1)

Pick(s, idx) == PickFrom(s, idx, 1)

\* members.find(m => m.id === id), undefined when there is none
FindById(ms, id) ==
    LET hit == Pick(ms, {i \in 1..Len(ms) : ms[i].id = id})
    IN IF hit = <<>> THEN NoMember ELSE hit[1]

IdsOf(s) == {s[i].id : i \in 1..Len(s)}

(***************************************************************************)
(* buildTree (lines 53-85).                                                *)
(***************************************************************************)
\* memberMap.get(id) after members.forEach(m => memberMap.set(m.id, m)):
\* the last member carrying the id, undefined when there is none.
MemberMapGet(ms, id) ==
    LET hit == Pick(ms, {i \in 1..Len(ms) : ms[i].id = id})
    IN IF hit = <<>> THEN NoMember ELSE hit[Len(hit)]

\* member.spouseId ? memberMap.get(member.spouseId) : undefined    (line 68)
ResolveSpouse(ms, member) ==
    IF member.spouseId # Absent THEN MemberMapGet(ms, member.spouseId) ELSE NoMember

\* The filter of line 62 without its second conjunct: the processed set is
\* not consulted.
IsChildCandidate_Unmarked(m, member, done) ==
    m.parentId = member.id

\* m.parentId === member.id && !processed.has(m.id)                 (line 62)
IsChildCandidate(m, member, done) ==
    m.parentId = member.id /\ m.id \notin done

\* A slip in the filter of line 78: the parentId is not looked at.
IsRootCandidate_AnyParent(m, done) ==
    m.id \notin done

\* !member.parentId && !processed.has(member.id)                    (line 78)
IsRootCandidate(m, done) ==
    m.parentId = Absent /\ m.id \notin done

ChildCandidates(ms, member, done) ==
    Pick(ms, {i \in 1..Len(ms) : IsChildCandidate(ms[i], member, done)})

\* A slip in the filter of line 78: a member some member names as its spouse
\* is not taken for a root.
RootCandidates_Unmarried(ms, done) ==
    Pick(ms, {i \in 1..Len(ms) :
                 /\ IsRootCandidate(ms[i], done)
                 /\ ~\E j \in 1..Len(ms) : ms[j].spouseId = ms[i].id})

RootCandidates(ms, done) ==
    Pick(ms, {i \in 1..Len(ms) : IsRootCandidate(ms[i], done)})

TreeNode(member, children, spouse) ==
    [member |-> member, children |-> children, spouse |-> spouse]

\* buildNode and the .map over its filtered children, threading the processed
\* set: the result is [node, done] resp. [nodes, done].
RECURSIVE BuildNode(_, _, _)
RECURSIVE MapChildren(_, _, _, _)
BuildNode(ms, member, done) ==
    LET kids == MapChildren(ms, ChildCandidates(ms, member, done), 1, done)
    IN [node |-> TreeNode(member, kids.nodes, ResolveSpouse(ms, member)),
        done |-> kids.done]

MapChildren(ms, todo, i, done) ==
    IF i > Len(todo) THEN [nodes |-> <<>>, done |-> done]
    ELSE LET sub == BuildNode(ms, todo[i], done \cup {todo[i].id})
             rest == MapChildren(ms, todo, i + 1, sub.done)
         IN [nodes |-> <<sub.node>> \o rest.nodes, done |-> rest.done]

\* the forEach over the filtered parentless members (lines 77-82)
RECURSIVE EachRoot(_, _, _, _)
EachRoot(ms, todo, i, done) ==
    IF i > Len(todo) THEN <<>>
    ELSE LET sub == BuildNode(ms, todo[i], done \cup {todo[i].id})
         IN <<sub.node>> \o EachRoot(ms, todo, i + 1, sub.done)

buildTree(ms) == EachRoot(ms, RootCandidates(ms, {}), 1, {})

\* The primary positions of a forest: the ids of its nodes, in pre-order.
RECURSIVE NodeIds(_)
RECURSIVE ForestIds(_, _)
NodeIds(node) == <<node.member.id>> \o ForestIds(node.children, 1)
ForestIds(nodes, i) ==
    IF i > Len(nodes) THEN <<>> ELSE NodeIds(nodes[i]) \o ForestIds(nodes, i + 1)

Placements(forest, id) ==
    LET p == ForestIds(forest, 1) IN Cardinality({i \in 1..Len(p) : p[i] = id})

(***************************************************************************)
(* buildTree as a run of steps: one step per root visited, per child       *)
(* visited (a buildNode call) and per buildNode return.                    *)
(***************************************************************************)
MaxDepth == MaxLen + 1

\* A buildNode call in progress: the filter of line 62 has run (todo), the
\* .map of lines 63-66 has produced kids so far.
Frame(member, todo) == [member |-> member, todo |-> todo, kids |-> <<>>]

\* line 53-58 and the filter of line 78
TreeStart ==
    /\ tpc = "idle"
    /\ tpc' = "roots"
    /\ rootQ' = RootCandidates(members, {})
    /\ processed' = {}
    /\ roots' = <<>>
    /\ stack' = <<>>
    /\ UNCHANGED <<members, ctlVars>>

\* lines 79-81: processed.add(rootMember.id); buildNode(rootMember)
VisitRoot ==
    /\ tpc = "roots"
    /\ stack = <<>>
    /\ rootQ # <<>>
    /\ LET r == Head(rootQ)
           done == processed \cup {r.id}
       IN /\ processed' = done
          /\ stack' = <<Frame(r, ChildCandidates(members, r, done))>>
    /\ rootQ' = Tail(rootQ)
    /\ UNCHANGED <<tpc, roots, members, ctlVars>>

\* lines 63-65: processed.add(child.id); buildNode(child)
VisitChild ==
    /\ stack # <<>>
    /\ Len(stack) < MaxDepth
    /\ stack[Len(stack)].todo # <<>>
    /\ LET n == Len(stack)
           c == Head(stack[n].todo)
           done == processed \cup {c.id}
       IN /\ processed' = done
          /\ stack' = Append([stack EXCEPT ![n].todo = Tail(@)],
                             Frame(c, ChildCandidates(members, c, done)))
    /\ UNCHANGED <<tpc, rootQ, roots, members, ctlVars>>

\* buildNode if it marked the resolved spouse as placed (processed.add after
\* line 68).
ReturnNode_MarksSpouse ==
    /\ stack # <<>>
    /\ stack[Len(stack)].todo = <<>>
    /\ LET n == Len(stack)
           spouse == ResolveSpouse(members, stack[n].member)
           node == TreeNode(stack[n].member, stack[n].kids, spouse)
       IN /\ processed' = processed \cup ({spouse.id} \ {Absent})
          /\ IF n = 1
             THEN /\ roots' = Append(roots, node)
                  /\ stack' = <<>>
             ELSE /\ roots' = roots
                  /\ stack' = [SubSeq(stack, 1, n - 1) EXCEPT ![n - 1].kids = Append(@, node)]
    /\ UNCHANGED <<tpc, rootQ, members, ctlVars>>

\* lines 68-74: the node is returned to the .map of the caller, or pushed to roots
ReturnNode ==
    /\ stack # <<>>
    /\ stack[Len(stack)].todo = <<>>
    /\ LET n == Len(stack)
           node == TreeNode(stack[n].member, stack[n].kids,
                            ResolveSpouse(members, stack[n].member))
       IN IF n = 1
          THEN /\ roots' = Append(roots, node)
               /\ stack' = <<>>
          ELSE /\ roots' = roots
               /\ stack' = [SubSeq(stack, 1, n - 1) EXCEPT ![n - 1].kids = Append(@, node)]
    /\ UNCHANGED <<tpc, rootQ, processed, members, ctlVars>>

\* line 84
TreeDone ==
    /\ tpc = "roots"
    /\ stack = <<>>
    /\ rootQ = <<>>
    /\ tpc' = "done"
    /\ UNCHANGED <<rootQ, stack, processed, roots, members, ctlVars>>

NextTree == TreeStart \/ VisitRoot \/ VisitChild \/ ReturnNode \/ TreeDone

\* The collections buildTree is run on: up to MaxLen members with pairwise
\* distinct ids, in any order; every parentId absent, the id of a member of
\* the collection or of none (MaxLen + 1 is never a member's id); every
\* spouseId absent or the id 1 (of the member itself, of another or of none).
TreeIds == 1..MaxLen
TreeRefs == 0..(MaxLen + 1)
TreeSpouseRefs == {Absent, 1}

Injective(f) == \A i, j \in DOMAIN f : f[i] = f[j] => i = j

IsTreeInput(ms) ==
    \E n \in 0..MaxLen :
      \E ord \in [1..n -> TreeIds], par \in [1..n -> TreeRefs], sp \in [1..n -> TreeSpouseRefs] :
        /\ Injective(ord)
        /\ ms = [i \in 1..n |-> Member(ord[i], par[i], sp[i], NoUrl, Absent)]

SignedOut == [currentUser |-> Absent, hasData |-> FALSE, uid |-> Absent, isAdmin |-> FALSE]

NoDelete ==
    [phase |-> "none", id |-> Absent, member |-> NoMember, alert |-> "none",
     calls |-> <<>>, cu |-> Absent]

CtlQuiet ==
    /\ selectedMember = NoMember
    /\ editingMember = NoMember
    /\ showAddForm = FALSE
    /\ loading = FALSE
    /\ deletingMember = Absent
    /\ deleteSuccess = FALSE
    /\ auth = SignedOut
    /\ effectDue = FALSE
    /\ store = {}
    /\ fetches = <<>>
    /\ delOp = NoDelete
    /\ timers = <<>>
    /\ formCalls = <<>>
    /\ writes = 0
    /\ resumes = <<>>

TreeIdle ==
    /\ tpc = "idle"
    /\ rootQ = <<>>
    /\ stack = <<>>
    /\ processed = {}
    /\ roots = <<>>

InitTree ==
    /\ IsTreeInput(members)
    /\ CtlQuiet
    /\ TreeIdle

SpecTree == InitTree /\ [][NextTree]_vars

\* Any collection of up to MaxLen members: ids may repeat (nothing in lines
\* 53-85 requires them distinct), every parentId is absent, the id of one or
\* several members or of none.  The members have no spouse, which the
\* recursion does not look at.
IsAnyInput(ms) ==
    \E n \in 0..MaxLen :
      \E ids \in [1..n -> TreeIds], par \in [1..n -> TreeRefs] :
        ms = [i \in 1..n |-> Member(ids[i], par[i], Absent, NoUrl, Absent)]

InitTreeAny ==
    /\ IsAnyInput(members)
    /\ CtlQuiet
    /\ TreeIdle

\* buildTree is synchronous: once called it runs to its return.
SpecTreeFair == InitTreeAny /\ [][NextTree]_vars /\ WF_vars(NextTree)

\* The stepwise run computes what the recursive definition computes, and the
\* depth guard of VisitChild never binds.
TreeRunSound ==
    /\ Len(stack) <= Len(members)
    /\ tpc = "done" => roots = buildTree(members)

(***************************************************************************)
(* buildTree on families with spouses: up to MaxFamily members with the    *)
(* ids 1, 2, ... in this order, every parentId absent or one of            *)
(* FamilyParentRefs, every spouseId absent or one of FamilySpouseRefs      *)
(* (the id of the member itself, of another member or of none).            *)
(***************************************************************************)
MaxFamily == 4

FamilyParentRefs == {Absent, 1, 3}
FamilySpouseRefs == {Absent, 1, 4}

IsFamilyInput(ms) ==
    \E n \in 0..MaxFamily :
      \E par \in [1..n -> FamilyParentRefs], sp \in [1..n -> FamilySpouseRefs] :
        ms = [i \in 1..n |-> Member(i, par[i], sp[i], NoUrl, Absent)]

InitFamily ==
    /\ IsFamilyInput(members)
    /\ CtlQuiet
    /\ TreeIdle

SpecFamily == InitFamily /\ [][NextTree]_vars

(***************************************************************************)
(* Strings are sequences of one-character strings, so that the string      *)
(* operations of deleteImageFromStorage (lines 87-101) are computed.       *)
(***************************************************************************)
StrFirebase ==
    <<"f", "i", "r", "e", "b", "a", "s", "e">>

StrObjectDir ==
    <<"/", "o", "/">>

StrHttps ==
    <<"h", "t", "t", "p", "s", ":", "/", "/">>

\* A download URL of the asset store, one of another host, and a string that
\* names the asset store but is no URL.
UrlFirebase ==
    <<"h", "t", "t", "p", "s", ":", "/", "/", "f", "i", "r", "e", "b", "a", 
      "s", "e", "s", "t", "o", "r", "a", "g", "e", ".", "g", "o", "o", "g", 
      "l", "e", "a", "p", "i", "s", ".", "c", "o", "m", "/", "v", "0", "/", 
      "b", "/", "f", "t", "/", "o", "/", "i", "m", "g", "%", "2", "F", "a", 
      ".", "p", "n", "g", "?", "a", "l", "t", "=", "m", "e", "d", "i", "a">>

UrlExternal ==
    <<"h", "t", "t", "p", "s", ":", "/", "/", "e", "x", "a", "m", "p", "l", 
      "e", ".", "c", "o", "m", "/", "o", "/", "a", ".", "p", "n", "g", "?", 
      "w", "=", "1">>

UrlBroken ==
    <<"f", "i", "r", "e", "b", "a", "s", "e", "/", "o", "/", "a", ".", "p", 
      "n", "g", "?", "w", "=", "1">>

\* s.startsWith(sub, at)
MatchesAt(s, sub, at) ==
    /\ at >= 1
    /\ at + Len(sub) - 1 <= Len(s)
    /\ \A k \in 1..Len(sub) : s[at + k - 1] = sub[k]

\* String.prototype.includes
Includes(s, sub) == \E at \in 1..(Len(s) + 1) : MatchesAt(s, sub, at)

FirstIndex(s, chars, from) ==
    LET at == {k \in from..Len(s) : s[k] \in chars}
    IN IF at = {} THEN 0 ELSE CHOOSE k \in at : \A j \in at : k <= j

\* new URL(imageUrl) for the strings of the model: an https URL with a host
\* parses, a string without a scheme throws.  pathname runs from the first
\* "/" after the host up to, not including, the first "?" or "#".
UrlParses(s) ==
    /\ MatchesAt(s, StrHttps, 1)
    /\ Len(s) > Len(StrHttps)
    /\ s[Len(StrHttps) + 1] \notin {"/", "?", "#"}

UrlPathname(s) ==
    LET from == Len(StrHttps) + 1
        slash == FirstIndex(s, {"/", "?", "#"}, from)
        stop == FirstIndex(s, {"?", "#"}, from)
        last == IF stop = 0 THEN Len(s) ELSE stop - 1
    IN IF slash = 0 \/ s[slash] # "/" THEN <<"/">> ELSE SubSeq(s, slash, last)

\* pathname.match(/\/o\/(.+)\?/): the leftmost "/o/" that is followed by at
\* least one character and then a "?", the group running (greedily) up to the
\* last "?".  <<>> stands for no match (the group is never empty).
PathMatch(path) ==
    LET marks == {k \in 1..Len(path) : path[k] = "?"}
        starts == {i \in 1..Len(path) :
                      /\ MatchesAt(path, StrObjectDir, i)
                      /\ \E q \in marks : q >= i + Len(StrObjectDir) + 1}
    IN IF starts = {} THEN <<>>
       ELSE LET i == CHOOSE x \in starts : \A y \in starts : x <= y
                q == CHOOSE x \in marks : \A y \in marks : y <= x
            IN SubSeq(path, i + Len(StrObjectDir), q - 1)

\* decodeURIComponent on the escapes that occur in object keys.
HexPairs == {<<"2", "F">>, <<"2", "0">>, <<"3", "F">>}

UnescapeChar(pair) ==
    IF pair = <<"2", "F">> THEN "/" ELSE IF pair = <<"2", "0">> THEN " " ELSE "?"

DecodeThrows(s) ==
    \E k \in 1..Len(s) :
        s[k] = "%" /\ (k + 2 > Len(s) \/ SubSeq(s, k + 1, k + 2) \notin HexPairs)

RECURSIVE DecodeFrom(_, _)
DecodeFrom(s, k) ==
    IF k > Len(s) THEN <<>>
    ELSE IF s[k] = "%" THEN <<UnescapeChar(SubSeq(s, k + 1, k + 2))>> \o DecodeFrom(s, k + 3)
    ELSE <<s[k]>> \o DecodeFrom(s, k + 1)

decodeURIComponent(s) == DecodeFrom(s, 1)

\* deleteImageFromStorage up to its await (lines 88-96): the object key it
\* hands to deleteObject, <<>> when it returns or throws before that.
ImageKeyToDelete(imageUrl) ==
    IF imageUrl = NoUrl \/ ~Includes(imageUrl, StrFirebase) THEN <<>>
    ELSE IF ~UrlParses(imageUrl) THEN <<>>
    ELSE LET group == PathMatch(UrlPathname(imageUrl))
         IN IF group = <<>> \/ DecodeThrows(group) THEN <<>>
            ELSE decodeURIComponent(group)


(***************************************************************************)
(* The member lifecycle controller (lines 12-51 and 87-165) running        *)
(* against the document store.                                             *)
(***************************************************************************)
DocIds == 1..MaxDocs
ImageUrls == {NoUrl, UrlFirebase, UrlBroken, UrlExternal}

\* useAuth(): signed out; signed in before the profile document is loaded;
\* an ordinary user; an administrator.
AuthStates ==
    { SignedOut,
      [currentUser |-> 1, hasData |-> FALSE, uid |-> Absent, isAdmin |-> FALSE],
      [currentUser |-> 1, hasData |-> TRUE, uid |-> 1, isAdmin |-> FALSE],
      [currentUser |-> 2, hasData |-> TRUE, uid |-> 2, isAdmin |-> TRUE] }

\* userData?.uid and userData?.isAdmin
UserUid(a) == IF a.hasData THEN a.uid ELSE Absent
UserIsAdmin(a) == a.hasData /\ a.isAdmin

\* userData?.isAdmin || userData?.uid === memberToDelete.createdBy  (line 108)
CanDelete(a, m) == UserIsAdmin(a) \/ UserUid(a) = m.createdBy

\* A slip in line 115: the spouse reference is compared instead of the parent's.
HasChildren_BySpouse(ms, memberId) == \E i \in 1..Len(ms) : ms[i].spouseId = memberId

\* members.some(m => m.parentId === memberId)                       (line 115)
HasChildren(ms, memberId) == \E i \in 1..Len(ms) : ms[i].parentId = memberId

\* querySnapshot.docs.map(...) (lines 41-44) keeps the order of the snapshot;
\* a query without orderBy (lines 37-39) returns the documents in ascending
\* order of their id.
RECURSIVE SortedDocs(_)
SortedDocs(docs) ==
    IF docs = {} THEN <<>>
    ELSE LET d == CHOOSE x \in docs : \A y \in docs : x.id <= y.id
         IN <<d>> \o SortedDocs(docs \ {d})

StoreIds(docs) == {d.id : d \in docs}

RemoveAt(s, i) == SubSeq(s, 1, i - 1) \o SubSeq(s, i + 1, Len(s))

\* The cards the populated view renders (renderTreeNode, lines 167-206): every
\* node's member and its spouse, when it has one.
RECURSIVE CardsOf(_, _)
CardsOf(forest, i) ==
    IF i > Len(forest) THEN {}
    ELSE {forest[i].member} \cup ({forest[i].spouse} \ {NoMember})
         \cup CardsOf(forest[i].children, 1) \cup CardsOf(forest, i + 1)

\* Which of the early returns of the render (lines 208-273) is taken.
MainView ==
    /\ ~deleteSuccess
    /\ deletingMember = Absent
    /\ ~loading
    /\ auth.currentUser # Absent

ModalShown == MainView /\ selectedMember # NoMember
FormShown == MainView /\ (showAddForm \/ editingMember # NoMember)

Fetch(cont) == [cont |-> cont, served |-> FALSE, docs |-> <<>>]

\* fetchMembers up to its await (lines 30-40), called through a closure that
\* captured currentUser = cu: without a user it clears loading and returns
\* (a caller that awaits it goes on in a later step), with one it issues
\* getDocs (at most MaxFetches calls of fetchMembers are under way).
FetchMembers(cu, cont) ==
    IF cu = Absent
    THEN /\ loading' = FALSE
         /\ fetches' = fetches
         /\ resumes' = IF cont = "effect" THEN resumes ELSE Append(resumes, cont)
    ELSE /\ loading' = loading
         /\ Len(fetches) + Len(resumes) < MaxFetches
         /\ fetches' = Append(fetches, Fetch(cont))
         /\ resumes' = resumes

\* What follows `await fetchMembers()` in the caller: lines 163-164 in
\* handleFormSuccess, line 148 in the timer callback.  The effect does not
\* await the call (line 24).
AfterFetch(cont) ==
    /\ showAddForm' = IF cont = "form" THEN FALSE ELSE showAddForm
    /\ editingMember' = IF cont = "form" THEN NoMember ELSE editingMember
    /\ deleteSuccess' = IF cont = "timer" THEN FALSE ELSE deleteSuccess

\* The component is rendered with a new value of useAuth() (line 20).  React
\* runs an effect that is still due before it renders the component again,
\* so this render follows RunEffect; the effect of lines 22-28 is due anew
\* when currentUser changed.  Event handlers and the callbacks of store
\* calls and timers do not wait for the effect.
AuthChange(a) ==
    /\ ~effectDue
    /\ a # auth
    /\ auth' = a
    /\ effectDue' = (a.currentUser # auth.currentUser)
    /\ UNCHANGED <<members, selectedMember, editingMember, showAddForm, loading,
                   deletingMember, deleteSuccess, store, fetches, delOp, timers,
                   formCalls, writes, resumes, treeVars>>

\* The effect of lines 22-28 runs, after the render that made it due.
RunEffect ==
    /\ effectDue
    /\ effectDue' = FALSE
    /\ IF auth.currentUser # Absent
       THEN FetchMembers(auth.currentUser, "effect")
       ELSE loading' = FALSE /\ fetches' = fetches /\ resumes' = resumes
    /\ UNCHANGED <<members, selectedMember, editingMember, showAddForm, deletingMember,
                   deleteSuccess, auth, store, delOp, timers, formCalls, writes, treeVars>>

\* The store answers a getDocs call with the documents it holds now.
FetchServe(i) ==
    /\ i \in 1..Len(fetches)
    /\ ~fetches[i].served
    /\ fetches' = [fetches EXCEPT ![i] = [@ EXCEPT !.served = TRUE, !.docs = SortedDocs(store)]]
    /\ UNCHANGED <<members, selectedMember, editingMember, showAddForm, loading,
                   deletingMember, deleteSuccess, auth, store, delOp, timers,
                   formCalls, writes, effectDue, resumes, treeVars>>

\* fetchMembers if it sequenced its requests: the result of a getDocs call is
\* applied only when no call issued after it is in flight.
FetchResolve_IssuedLast(i) ==
    /\ i \in 1..Len(fetches)
    /\ fetches[i].served
    /\ members' = IF i = Len(fetches) THEN fetches[i].docs ELSE members
    /\ loading' = FALSE
    /\ resumes' = IF fetches[i].cont = "effect" THEN resumes
                  ELSE Append(resumes, fetches[i].cont)
    /\ fetches' = RemoveAt(fetches, i)
    /\ UNCHANGED <<selectedMember, editingMember, showAddForm, deletingMember,
                   deleteSuccess, auth, store, delOp, timers,
                   formCalls, writes, effectDue, treeVars>>

\* The awaited getDocs resolves and fetchMembers runs to its end (lines
\* 40-45, 49); a caller that awaits fetchMembers goes on in a later step.
FetchResolve(i) ==
    /\ i \in 1..Len(fetches)
    /\ fetches[i].served
    /\ members' = fetches[i].docs
    /\ loading' = FALSE
    /\ resumes' = IF fetches[i].cont = "effect" THEN resumes
                  ELSE Append(resumes, fetches[i].cont)
    /\ fetches' = RemoveAt(fetches, i)
    /\ UNCHANGED <<selectedMember, editingMember, showAddForm, deletingMember,
                   deleteSuccess, auth, store, delOp, timers,
                   formCalls, writes, effectDue, treeVars>>

\* fetchMembers if it had no catch: the rejection reaches the caller, whose
\* statements after `await fetchMembers()` are skipped.
FetchFail_Rethrows(i) ==
    /\ i \in 1..Len(fetches)
    /\ loading' = FALSE
    /\ fetches' = RemoveAt(fetches, i)
    /\ UNCHANGED <<members, selectedMember, editingMember, showAddForm, deletingMember,
                   deleteSuccess, auth, store, delOp, timers, formCalls, writes,
                   effectDue, resumes, treeVars>>

\* The awaited getDocs rejects and fetchMembers runs to its end (lines
\* 46-49); a caller that awaits fetchMembers goes on in a later step.
FetchFail(i) ==
    /\ i \in 1..Len(fetches)
    /\ loading' = FALSE
    /\ resumes' = IF fetches[i].cont = "effect" THEN resumes
                  ELSE Append(resumes, fetches[i].cont)
    /\ fetches' = RemoveAt(fetches, i)
    /\ UNCHANGED <<members, selectedMember, editingMember, showAddForm,
                   deletingMember, deleteSuccess, auth, store, delOp, timers,
                   formCalls, writes, effectDue, treeVars>>

CallObject(key) == [api |-> "deleteObject", key |-> key, id |-> Absent]
CallDoc(id) == [api |-> "deleteDoc", key |-> <<>>, id |-> id]

\* No invocation is in flight; alert is the alert() the last one raised.
Ended(alert) == [NoDelete EXCEPT !.alert = alert]

\* handleDeleteMember if deleteImageFromStorage had no try/catch of its own:
\* the TypeError of new URL reaches the catch of line 151.
HandleDeleteMember_ImageThrows(memberId) ==
    /\ ModalShown
    /\ LET memberToDelete == FindById(members, memberId)
           key == IF memberToDelete.imageUrl # NoUrl
                  THEN ImageKeyToDelete(memberToDelete.imageUrl) ELSE <<>>
       IN IF memberToDelete = NoMember
          THEN delOp' = Ended("none") /\ deletingMember' = deletingMember
          ELSE IF ~CanDelete(auth, memberToDelete)
          THEN delOp' = Ended("permission") /\ deletingMember' = deletingMember
          ELSE IF HasChildren(members, memberId)
          THEN delOp' = Ended("children") /\ deletingMember' = deletingMember
          ELSE IF /\ Includes(memberToDelete.imageUrl, StrFirebase)
                  /\ ~UrlParses(memberToDelete.imageUrl)
          THEN delOp' = Ended("failed") /\ deletingMember' = deletingMember
          ELSE /\ deletingMember' = memberId
               /\ delOp' = [phase |-> IF memberToDelete.imageUrl # NoUrl
                                      THEN "asset" ELSE "doc",
                            id |-> memberId,
                            member |-> memberToDelete,
                            alert |-> "none",
                            calls |-> IF key # <<>> THEN <<CallObject(key)>>
                                      ELSE IF memberToDelete.imageUrl # NoUrl THEN <<>>
                                      ELSE <<CallDoc(memberId)>>,
                            cu |-> auth.currentUser]
    /\ UNCHANGED <<members, selectedMember, editingMember, showAddForm, loading,
                   deleteSuccess, auth, store, fetches, timers, formCalls, writes,
                   effectDue, resumes, treeVars>>

\* handleDeleteMember up to its first await (lines 103-139, with
\* deleteImageFromStorage lines 87-96 inlined): the await of line 126 when the
\* member has an imageUrl, whether or not deleteObject is called for it, else
\* the await of line 139.
HandleDeleteMember(memberId) ==
    /\ ModalShown
    /\ LET memberToDelete == FindById(members, memberId)
           key == IF memberToDelete.imageUrl # NoUrl
                  THEN ImageKeyToDelete(memberToDelete.imageUrl) ELSE <<>>
       IN IF memberToDelete = NoMember
          THEN delOp' = Ended("none") /\ deletingMember' = deletingMember
          ELSE IF ~CanDelete(auth, memberToDelete)
          THEN delOp' = Ended("permission") /\ deletingMember' = deletingMember
          ELSE IF HasChildren(members, memberId)
          THEN delOp' = Ended("children") /\ deletingMember' = deletingMember
          ELSE /\ deletingMember' = memberId
               /\ delOp' = [phase |-> IF memberToDelete.imageUrl # NoUrl
                                      THEN "asset" ELSE "doc",
                            id |-> memberId,
                            member |-> memberToDelete,
                            alert |-> "none",
                            calls |-> IF key # <<>> THEN <<CallObject(key)>>
                                      ELSE IF memberToDelete.imageUrl # NoUrl THEN <<>>
                                      ELSE <<CallDoc(memberId)>>,
                            cu |-> auth.currentUser]
    /\ UNCHANGED <<members, selectedMember, editingMember, showAddForm, loading,
                   deleteSuccess, auth, store, fetches, timers, formCalls, writes,
                   effectDue, resumes, treeVars>>

\* handleDeleteMember if the branch of lines 130-136 did what its comment
\* describes: the spouseId of the counterpart is cleared with the delete.
StoreDelete_ClearsSpouse ==
    /\ delOp.phase = "doc"
    /\ store' = {IF d.spouseId = delOp.id THEN [d EXCEPT !.spouseId = Absent] ELSE d :
                     d \in {x \in store : x.id # delOp.id}}
    /\ delOp' = [delOp EXCEPT !.phase = "applied"]
    /\ UNCHANGED <<members, selectedMember, editingMember, showAddForm, loading,
                   deletingMember, deleteSuccess, auth, fetches, timers, formCalls,
                   writes, effectDue, resumes, treeVars>>

\* The store applies the deleteDoc of line 139.  Its acknowledgement reaches
\* the component later (DeleteSettle): a getDocs call answered in between
\* no longer holds the document.
StoreDelete ==
    /\ delOp.phase = "doc"
    /\ store' = {d \in store : d.id # delOp.id}
    /\ delOp' = [delOp EXCEPT !.phase = "applied"]
    /\ UNCHANGED <<members, selectedMember, editingMember, showAddForm, loading,
                   deletingMember, deleteSuccess, auth, fetches, timers, formCalls,
                   writes, effectDue, resumes, treeVars>>

\* handleDeleteMember without its finally block: a rejected deleteDoc leaves
\* deletingMember set.
DeleteSettle_NoFinally(ok) ==
    /\ delOp.phase \in {"asset", "doc", "applied"}
    /\ delOp.phase = "doc" => ~ok
    /\ delOp.phase = "applied" => ok
    /\ IF delOp.phase = "asset"
       THEN /\ delOp' = [delOp EXCEPT !.phase = "doc", !.calls = Append(@, CallDoc(delOp.id))]
            /\ UNCHANGED <<deleteSuccess, selectedMember, timers, deletingMember>>
       ELSE IF ok
       THEN /\ deleteSuccess' = TRUE
            /\ selectedMember' = NoMember
            /\ timers' = Append(timers, delOp.cu)
            /\ deletingMember' = Absent
            /\ delOp' = Ended("none")
       ELSE /\ delOp' = Ended("failed")
            /\ UNCHANGED <<deleteSuccess, selectedMember, timers, deletingMember>>
    /\ UNCHANGED <<members, editingMember, showAddForm, loading, auth, store, fetches,
                   formCalls, writes, effectDue, resumes, treeVars>>

\* What handleDeleteMember awaits settles.  After deleteImageFromStorage
\* (line 126; an error of deleteObject is caught at line 98) deleteDoc is
\* issued (line 139);
\* deleteDoc is rejected before the store applied it, or acknowledged after;
\* then lines 142-149 resp. 152-153 run, then line 155.
DeleteSettle(ok) ==
    /\ delOp.phase \in {"asset", "doc", "applied"}
    /\ delOp.phase = "doc" => ~ok
    /\ delOp.phase = "applied" => ok
    /\ IF delOp.phase = "asset"
       THEN /\ delOp' = [delOp EXCEPT !.phase = "doc", !.calls = Append(@, CallDoc(delOp.id))]
            /\ UNCHANGED <<deleteSuccess, selectedMember, timers, deletingMember>>
       ELSE IF ok
       THEN /\ deleteSuccess' = TRUE
            /\ selectedMember' = NoMember
            /\ timers' = Append(timers, delOp.cu)
            /\ deletingMember' = Absent
            /\ delOp' = Ended("none")
       ELSE /\ delOp' = Ended("failed")
            /\ deletingMember' = Absent
            /\ UNCHANGED <<deleteSuccess, selectedMember, timers>>
    /\ UNCHANGED <<members, editingMember, showAddForm, loading, auth, store, fetches,
                   formCalls, writes, effectDue, resumes, treeVars>>

\* A caller goes on after its `await fetchMembers()` (line 147 resp. 161):
\* line 148 in the timer callback, lines 163-164 in handleFormSuccess.  The
\* callers go on in the order in which their calls returned.
ResumeCaller ==
    /\ resumes # <<>>
    /\ AfterFetch(Head(resumes))
    /\ resumes' = Tail(resumes)
    /\ UNCHANGED <<members, selectedMember, loading, deletingMember, auth, store,
                   fetches, delOp, timers, formCalls, writes, effectDue, treeVars>>

\* The setTimeout callback (lines 146-149) up to its await.
TimerFire ==
    /\ timers # <<>>
    /\ timers' = Tail(timers)
    /\ FetchMembers(Head(timers), "timer")
    /\ UNCHANGED <<members, selectedMember, editingMember, showAddForm, deletingMember,
                   deleteSuccess,
                   auth, store, delOp, formCalls, writes, effectDue, treeVars>>

\* handleFormSuccess if it closed the forms before refreshing.
HandleFormSuccess_ClosesFirst ==
    /\ formCalls # <<>>
    /\ formCalls' = Tail(formCalls)
    /\ FetchMembers(Head(formCalls), "form")
    /\ showAddForm' = FALSE
    /\ editingMember' = NoMember
    /\ UNCHANGED <<members, selectedMember, deletingMember, deleteSuccess, auth, store,
                   delOp, timers, writes, effectDue, treeVars>>

\* handleFormSuccess (lines 159-165) up to its await.
HandleFormSuccess ==
    /\ formCalls # <<>>
    /\ formCalls' = Tail(formCalls)
    /\ FetchMembers(Head(formCalls), "form")
    /\ UNCHANGED <<members, selectedMember, editingMember, showAddForm, deletingMember,
                   deleteSuccess, auth, store,
                   delOp, timers, writes, effectDue, treeVars>>

\* The Add/Edit form (AddMemberForm, not part of the source at hand) writes a
\* member document and owes the controller an onSuccess call.  It edits the
\* document of editingMember, or adds one under an unused id; the parent and
\* the spouse are picked among the members it was given (availableParents).
FormPayloads ==
    LET picks == {Absent} \cup IdsOf(members)
    IN IF editingMember # NoMember
       THEN {[editingMember EXCEPT !.parentId = p, !.spouseId = sp] :
                p \in picks \ {editingMember.id}, sp \in picks \ {editingMember.id}}
       ELSE {Member(i, p, sp, NoUrl, auth.currentUser) :
                i \in DocIds \ StoreIds(store), p \in picks, sp \in picks}

FormSubmit(d) ==
    /\ FormShown
    /\ Len(formCalls) < MaxPending
    /\ writes < MaxWrites
    /\ writes' = writes + 1
    /\ d \in FormPayloads
    /\ editingMember # NoMember => d.id \in StoreIds(store)
    /\ store' = {x \in store : x.id # d.id} \cup {d}
    /\ formCalls' = Append(formCalls, auth.currentUser)
    /\ UNCHANGED <<members, selectedMember, editingMember, showAddForm, loading,
                   deletingMember, deleteSuccess, auth, fetches, delOp, timers,
                   effectDue, resumes, treeVars>>

\* Gestures on the populated view (lines 175, 183, 286, 313-316, 323-326).
SelectMember(m) ==
    /\ MainView
    /\ m \in CardsOf(buildTree(members), 1)
    /\ selectedMember' = m
    /\ UNCHANGED <<members, editingMember, showAddForm, loading, deletingMember,
                   deleteSuccess, auth, store, fetches, delOp, timers, formCalls, writes,
                   effectDue, resumes, treeVars>>

CloseModal ==
    /\ ModalShown
    /\ selectedMember' = NoMember
    /\ UNCHANGED <<members, editingMember, showAddForm, loading, deletingMember,
                   deleteSuccess, auth, store, fetches, delOp, timers, formCalls, writes,
                   effectDue, resumes, treeVars>>

\* (the form is opened only while the run may still write: MaxWrites)
EditSelected ==
    /\ ModalShown
    /\ writes < MaxWrites
    /\ editingMember' = selectedMember
    /\ UNCHANGED <<members, selectedMember, showAddForm, loading, deletingMember,
                   deleteSuccess, auth, store, fetches, delOp, timers, formCalls, writes,
                   effectDue, resumes, treeVars>>

OpenAddForm ==
    /\ MainView
    /\ writes < MaxWrites
    /\ showAddForm' = TRUE
    /\ UNCHANGED <<members, selectedMember, editingMember, loading, deletingMember,
                   deleteSuccess, auth, store, fetches, delOp, timers, formCalls, writes,
                   effectDue, resumes, treeVars>>

CloseForm ==
    /\ FormShown
    /\ showAddForm' = FALSE
    /\ editingMember' = NoMember
    /\ UNCHANGED <<members, selectedMember, loading, deletingMember, deleteSuccess,
                   auth, store, fetches, delOp, timers, formCalls, writes,
                   effectDue, resumes, treeVars>>

\* The sessions of the run against the store: signed out or administrator.
Sessions == {a \in AuthStates : a.currentUser = Absent \/ a.isAdmin}

Next ==
    \/ \E a \in Sessions : AuthChange(a)
    \/ RunEffect
    \/ \E i \in 1..MaxFetches : FetchServe(i)
    \/ \E i \in 1..MaxFetches : FetchResolve(i)
    \/ ResumeCaller
    \/ \E i \in 1..MaxFetches : FetchFail(i)
    \/ \E memberId \in DocIds : HandleDeleteMember(memberId)
    \/ StoreDelete
    \/ \E ok \in BOOLEAN : DeleteSettle(ok)
    \/ TimerFire
    \/ HandleFormSuccess
    \/ \E d \in FormPayloads : FormSubmit(d)
    \/ \E m \in CardsOf(buildTree(members), 1) : SelectMember(m)
    \/ CloseModal
    \/ EditSelected
    \/ OpenAddForm
    \/ CloseForm

\* The documents the store may hold when the component mounts: created by
\* user 1, without an image, document 2 possibly a child of document 1.
SeedDocs ==
    [i \in DocIds |->
        {Member(i, p, Absent, NoUrl, 1) : p \in {Absent} \cup {j \in DocIds : j < i}}]

IsStoreOf(docs, seeds) ==
    \E pick \in [DocIds -> BOOLEAN] :
      \E seed \in [DocIds -> UNION {seeds[i] : i \in DocIds}] :
        /\ \A i \in DocIds : seed[i] \in seeds[i]
        /\ docs = {seed[i] : i \in {j \in DocIds : pick[j]}}

\* The state after the first render, its effect still to run (lines 13-22).
Init ==
    /\ members = <<>>
    /\ selectedMember = NoMember
    /\ editingMember = NoMember
    /\ showAddForm = FALSE
    /\ deletingMember = Absent
    /\ deleteSuccess = FALSE
    /\ auth \in Sessions
    /\ IsStoreOf(store, SeedDocs)
    /\ effectDue = TRUE
    /\ loading = TRUE
    /\ fetches = <<>>
    /\ delOp = NoDelete
    /\ timers = <<>>
    /\ formCalls = <<>>
    /\ writes = 0
    /\ resumes = <<>>
    /\ TreeIdle

Spec == Init /\ [][Next]_vars

\* The same run when no getDocs call is rejected.
NextReliable ==
    \/ \E a \in Sessions : AuthChange(a)
    \/ RunEffect
    \/ \E i \in 1..MaxFetches : FetchServe(i)
    \/ \E i \in 1..MaxFetches : FetchResolve(i)
    \/ ResumeCaller
    \/ \E memberId \in DocIds : HandleDeleteMember(memberId)
    \/ StoreDelete
    \/ \E ok \in BOOLEAN : DeleteSettle(ok)
    \/ TimerFire
    \/ HandleFormSuccess
    \/ \E d \in FormPayloads : FormSubmit(d)
    \/ \E m \in CardsOf(buildTree(members), 1) : SelectMember(m)
    \/ CloseModal
    \/ EditSelected
    \/ OpenAddForm
    \/ CloseForm

SpecReliable == Init /\ [][NextReliable]_vars


(***************************************************************************)
(* Deletes by every kind of caller, of members with every kind of image    *)
(* and creator: the controller in one session, without the Add/Edit form.  *)
(***************************************************************************)
DeleteSeedDocs ==
    [i \in DocIds |->
        {Member(i, p, Absent, u, c) :
            p \in {Absent} \cup {j \in DocIds : j < i}, u \in ImageUrls, c \in {Absent, 1}}]

InitDelete ==
    /\ members = <<>>
    /\ selectedMember = NoMember
    /\ editingMember = NoMember
    /\ showAddForm = FALSE
    /\ deletingMember = Absent
    /\ deleteSuccess = FALSE
    /\ auth \in AuthStates
    /\ IsStoreOf(store, DeleteSeedDocs)
    /\ effectDue = TRUE
    /\ loading = TRUE
    /\ fetches = <<>>
    /\ delOp = NoDelete
    /\ timers = <<>>
    /\ formCalls = <<>>
    /\ writes = 0
    /\ resumes = <<>>
    /\ TreeIdle

NextDelete ==
    \/ RunEffect
    \/ \E i \in 1..MaxFetches : FetchServe(i)
    \/ \E i \in 1..MaxFetches : FetchResolve(i)
    \/ ResumeCaller
    \/ \E i \in 1..MaxFetches : FetchFail(i)
    \/ \E memberId \in DocIds : HandleDeleteMember(memberId)
    \/ StoreDelete
    \/ \E ok \in BOOLEAN : DeleteSettle(ok)
    \/ TimerFire
    \/ \E m \in CardsOf(buildTree(members), 1) : SelectMember(m)
    \/ CloseModal

SpecDelete == InitDelete /\ [][NextDelete]_vars


(***************************************************************************)
(* Deletes of members that are referenced as spouses: the creator deletes  *)
(* members of a store in which every spouseId is absent or the id of       *)
(* another document.                                                       *)
(***************************************************************************)
SpouseSeedDocs ==
    [i \in DocIds |->
        {Member(i, p, sp, NoUrl, 1) :
            p \in {Absent} \cup {j \in DocIds : j < i}, sp \in {Absent} \cup (DocIds \ {i})}]

InitSpouse ==
    /\ members = <<>>
    /\ selectedMember = NoMember
    /\ editingMember = NoMember
    /\ showAddForm = FALSE
    /\ deletingMember = Absent
    /\ deleteSuccess = FALSE
    /\ auth \in {a \in AuthStates : a.hasData}
    /\ IsStoreOf(store, SpouseSeedDocs)
    /\ effectDue = TRUE
    /\ loading = TRUE
    /\ fetches = <<>>
    /\ delOp = NoDelete
    /\ timers = <<>>
    /\ formCalls = <<>>
    /\ writes = 0
    /\ resumes = <<>>
    /\ TreeIdle

SpecSpouse == InitSpouse /\ [][NextDelete]_vars

(***************************************************************************)
(* Sign-in and sign-out while deletes are under way: the controller        *)
(* without the Add/Edit form.                                              *)
(***************************************************************************)
NextSession ==
    \/ \E a \in Sessions : AuthChange(a)
    \/ RunEffect
    \/ \E i \in 1..MaxFetches : FetchServe(i)
    \/ \E i \in 1..MaxFetches : FetchResolve(i)
    \/ ResumeCaller
    \/ \E i \in 1..MaxFetches : FetchFail(i)
    \/ \E memberId \in DocIds : HandleDeleteMember(memberId)
    \/ StoreDelete
    \/ \E ok \in BOOLEAN : DeleteSettle(ok)
    \/ TimerFire
    \/ \E m \in CardsOf(buildTree(members), 1) : SelectMember(m)
    \/ CloseModal

SpecSession == Init /\ [][NextSession]_vars

\* A due effect runs, the timer of line 146 fires after its delay whatever
\* else goes on, and every getDocs call and every awaited store call settles.
FetchSettles(i) == FetchServe(i) \/ FetchResolve(i) \/ FetchFail(i)

\* The documents of this run have no parent (a delete is never refused for
\* children); document 1 has an imageUrl (handleDeleteMember then awaits
\* deleteImageFromStorage before it issues deleteDoc), the others have none.
SessionSeedDocs ==
    [i \in DocIds |-> {Member(i, Absent, Absent, IF i = 1 THEN UrlExternal ELSE NoUrl, 1)}]

InitSession ==
    /\ members = <<>>
    /\ selectedMember = NoMember
    /\ editingMember = NoMember
    /\ showAddForm = FALSE
    /\ deletingMember = Absent
    /\ deleteSuccess = FALSE
    /\ auth \in Sessions
    /\ IsStoreOf(store, SessionSeedDocs)
    /\ effectDue = TRUE
    /\ loading = TRUE
    /\ fetches = <<>>
    /\ delOp = NoDelete
    /\ timers = <<>>
    /\ formCalls = <<>>
    /\ writes = 0
    /\ resumes = <<>>
    /\ TreeIdle

SpecSessionFair ==
    /\ InitSession
    /\ [][NextSession]_vars
    /\ WF_vars(RunEffect)
    /\ SF_vars(TimerFire)
    /\ \A i \in 1..MaxFetches : WF_vars(FetchSettles(i))
    /\ WF_vars(ResumeCaller)
    /\ WF_vars(StoreDelete)
    /\ WF_vars(\E ok \in BOOLEAN : DeleteSettle(ok))


(***************************************************************************)
(* Adding and editing members in one signed-in session: the controller     *)
(* without deletes.                                                        *)
(***************************************************************************)
InitForm == Init /\ auth.currentUser # Absent

\* (the members written in this run have no spouse)
FormPayloadsSingle == {d \in FormPayloads : d.spouseId = Absent}

NextForm ==
    \/ RunEffect
    \/ \E i \in 1..MaxFetches : FetchServe(i)
    \/ \E i \in 1..MaxFetches : FetchResolve(i)
    \/ ResumeCaller
    \/ \E i \in 1..MaxFetches : FetchFail(i)
    \/ HandleFormSuccess
    \/ \E d \in FormPayloadsSingle : FormSubmit(d)
    \/ \E m \in CardsOf(buildTree(members), 1) : SelectMember(m)
    \/ CloseModal
    \/ EditSelected
    \/ OpenAddForm
    \/ CloseForm

SpecForm == InitForm /\ [][NextForm]_vars

\* A due effect runs, the form calls onSuccess once its write is done, and
\* every getDocs call settles.
SpecFormFair ==
    /\ SpecForm
    /\ WF_vars(RunEffect)
    /\ WF_vars(HandleFormSuccess)
    /\ \A i \in 1..MaxFetches : WF_vars(FetchSettles(i))
    /\ WF_vars(ResumeCaller)

(***************************************************************************)
(* Refetches after deletes and after additions in one signed-in session,   *)
(* no getDocs call being rejected.                                         *)
(***************************************************************************)
NextRefetch ==
    \/ RunEffect
    \/ \E i \in 1..MaxFetches : FetchServe(i)
    \/ \E i \in 1..MaxFetches : FetchResolve(i)
    \/ ResumeCaller
    \/ \E memberId \in DocIds : HandleDeleteMember(memberId)
    \/ StoreDelete
    \/ \E ok \in BOOLEAN : DeleteSettle(ok)
    \/ TimerFire
    \/ HandleFormSuccess
    \/ \E d \in FormPayloadsSingle : FormSubmit(d)
    \/ \E m \in CardsOf(buildTree(members), 1) : SelectMember(m)
    \/ CloseModal
    \/ OpenAddForm
    \/ CloseForm

SpecRefetch == InitForm /\ [][NextRefetch]_vars

(***************************************************************************)
(* Claims about buildTree.                                                 *)
(***************************************************************************)
IsDangling(ms, m) == m.parentId # Absent /\ m.parentId \notin IdsOf(ms)

IsRootOf(forest, m) == \E k \in 1..Len(forest) : forest[k].member = m

\* C1: when buildTree has returned, every member of the collection (ids
\* pairwise distinct) occupies exactly one primary position of the forest,
\* whatever its parentId references.
C1_EveryMemberPlacedOnce ==
    tpc = "done" =>
        \A i \in 1..Len(members) : Placements(roots, members[i].id) = 1

\* C9: when buildTree has returned, every member whose parentId is set but is
\* the id of no member of the collection is a root of the forest.
C9_DanglingParentIsRoot ==
    tpc = "done" =>
        \A i \in 1..Len(members) :
            IsDangling(members, members[i]) => IsRootOf(roots, members[i])

\* C10: every run of buildTree reaches its return, on every collection,
\* with distinct or repeated ids and with any parentId references; the
\* recursion of buildNode is never deeper than the collection is long.
C10_BuildTreeTerminates ==
    /\ [](Len(stack) <= Len(members))
    /\ <>(tpc = "done")

\* A finished run on a collection with a cycle below a parentless member:
\* the root r has the child c, and a member with the id of r names c as its
\* parent; buildNode(c) has returned without recursing into it.
C10_Witness ==
    /\ tpc = "done"
    /\ \E k \in 1..Len(roots) :
          \E j \in 1..Len(roots[k].children) :
             LET r == roots[k].member
                 c == roots[k].children[j]
             IN /\ c.children = <<>>
                /\ c.member.id # r.id
                /\ \E i \in 1..Len(members) :
                      members[i].id = r.id /\ members[i].parentId = c.member.id

(***************************************************************************)
(* Claims about the controller.                                            *)
(***************************************************************************)
LocalChildOf(memberId) == \E i \in 1..Len(members) : members[i].parentId = memberId

LocalMember(memberId) == \E i \in 1..Len(members) : members[i].id = memberId

NoDeleteEffect ==
    /\ delOp'.phase = "none"
    /\ delOp'.calls = <<>>
    /\ UNCHANGED <<store, deletingMember, deleteSuccess, selectedMember, members, timers>>

\* C2: a handleDeleteMember(memberId) call made while the in-memory collection
\* holds a member whose parentId is memberId issues no store call and leaves
\* the deleting and delete-succeeded flags, the selected member and the
\* collection as they were, whoever the caller is.
C2_ChildrenRefuseDelete ==
    [][\A memberId \in DocIds :
          (HandleDeleteMember(memberId) /\ LocalChildOf(memberId)) => NoDeleteEffect]_vars

\* A delete by a permitted caller was refused because of a local child.
C2_Witness ==
    /\ delOp.alert = "children"
    /\ delOp.phase = "none"
    /\ deletingMember = Absent
    /\ \E i \in 1..Len(members) : LocalChildOf(members[i].id)

\* The acting identity is the administrator, or is the creator of m.
IsAdminCaller(a) == a.hasData /\ a.isAdmin
IsCreatorCaller(a, m) == a.hasData /\ a.uid # Absent /\ a.uid = m.createdBy

\* C3: a handleDeleteMember call by an identity that is neither administrator
\* nor the creator of the target (also when the identity data is absent or
\* the member has no createdBy) raises the permission alert and has no
\* effect; an administrator or the creator is not stopped by this check.
C3_UnauthorizedDeleteAborted ==
    [][\A memberId \in DocIds :
          (HandleDeleteMember(memberId) /\ LocalMember(memberId)) =>
              LET m == FindById(members, memberId)
              IN IF IsAdminCaller(auth) \/ IsCreatorCaller(auth, m)
                 THEN delOp'.alert # "permission"
                 ELSE delOp'.alert = "permission" /\ NoDeleteEffect]_vars

\* C4: no document is removed from the store while the store holds another
\* document whose parentId is its id.
C4_NoDeleteWithStoredChildren ==
    [][\A id \in DocIds :
          (id \in StoreIds(store) /\ id \notin StoreIds(store')) =>
              ~\E d \in store : d.id # id /\ d.parentId = id]_vars

\* The object key of UrlFirebase, percent-decoded.
KeyFirebase == <<"i", "m", "g", "/", "a", ".", "p", "n", "g">>

ObjectCalls(calls) == {k \in 1..Len(calls) : calls[k].api = "deleteObject"}
DocCalls(calls) == {k \in 1..Len(calls) : calls[k].api = "deleteDoc"}

\* C5: when the record deletion of a member with an asset-store image URL has
\* been issued, the deletion of the decoded object key was issued (and has
\* settled) before it; for any other imageUrl no asset deletion is issued.
C5_AssetDeletedBeforeRecord ==
    /\ (delOp.phase \in {"doc", "applied"} /\ delOp.member.imageUrl = UrlFirebase) =>
           delOp.calls = <<CallObject(KeyFirebase), CallDoc(delOp.id)>>
    /\ (delOp.phase # "none" /\ delOp.member.imageUrl # UrlFirebase) =>
           ObjectCalls(delOp.calls) = {}

\* C6: a delete that passes both checks goes on to issue the record deletion
\* exactly once, after the asset deletion (if any) has settled either way and
\* also when the imageUrl is no URL; once the store has applied it the delete
\* can only end delete-succeeded, with no alert.
C6_AssetCleanupNeverBlocks ==
    [][/\ \A memberId \in DocIds :
             ( /\ HandleDeleteMember(memberId)
               /\ LocalMember(memberId)
               /\ ~LocalChildOf(memberId)
               /\ CanDelete(auth, FindById(members, memberId)) )
             => delOp'.phase \in {"asset", "doc"} /\ delOp'.id = memberId
       /\ (delOp.phase = "asset" /\ delOp' # delOp) =>
             (delOp'.phase = "doc" /\ delOp'.id = delOp.id)
       /\ delOp'.phase = "asset" => DocCalls(delOp'.calls) = {}
       /\ delOp'.phase \in {"doc", "applied"} =>
             /\ DocCalls(delOp'.calls) = {Len(delOp'.calls)}
             /\ delOp'.calls[Len(delOp'.calls)] = CallDoc(delOp'.id)
       /\ delOp.id \notin StoreIds(store') /\ delOp.id \in StoreIds(store) =>
             delOp' = [delOp EXCEPT !.phase = "applied"]
       /\ (delOp.phase = "applied" /\ delOp' # delOp) =>
             (deleteSuccess' /\ delOp' = Ended("none") /\ deletingMember' = Absent)
      ]_vars

\* The record of a member whose imageUrl is no URL has been deleted, and the
\* delete-succeeded state is shown.
C6_Witness ==
    /\ deleteSuccess
    /\ delOp = Ended("none")
    /\ \E i \in 1..Len(members) :
          members[i].imageUrl = UrlBroken /\ members[i].id \notin StoreIds(store)

\* C7: whenever a getDocs call is rejected, the in-memory collection is empty
\* afterwards and the loading flag is cleared.
C7_FailedFetchShowsEmpty ==
    [][\A i \in 1..MaxFetches : FetchFail(i) => (members' = <<>> /\ ~loading')]_vars

Quiescent ==
    /\ ~effectDue
    /\ fetches = <<>>
    /\ resumes = <<>>
    /\ timers = <<>>
    /\ formCalls = <<>>
    /\ delOp.phase = "none"

\* C8: with a user signed in, after the form has written to the store, once
\* no fetch, timer, callback or delete is outstanding (no fetch having
\* failed), the in-memory collection is the store's content.
C8_ViewEqualsStoreWhenQuiet ==
    (Quiescent /\ auth.currentUser # Absent /\ writes > 0) =>
        members = SortedDocs(store)

\* The conditions of the early returns of the render (lines 209, 231, 250, 261).
UiConditions ==
    << loading, deletingMember # Absent, deleteSuccess, auth.currentUser = Absent >>

\* C11: at most one of the conditions loading, deleting, delete-succeeded and
\* unauthenticated holds in any state, so that the view is determined by the
\* one that holds, or is the empty / populated view when none does.
C11_UiStatesExclusive ==
    Cardinality({k \in 1..Len(UiConditions) : UiConditions[k]}) <= 1

\* C20: a getDocs call is issued only while a current user exists, also by the
\* callback of the post-delete timer and by handleFormSuccess after a sign-out.
C20_NoReadWithoutUser ==
    [][Len(fetches') > Len(fetches) => auth'.currentUser # Absent]_vars

\* C12: whenever a getDocs call resolves, the in-memory collection becomes the
\* snapshot that call returned, whatever the collection held and whichever
\* calls, issued before or after it, are still in flight; so after several
\* outstanding calls the collection is the snapshot of the one resolved last.
C12_LastResolvedWins ==
    [][Len(fetches') < Len(fetches) =>
          \E i \in 1..Len(fetches) :
              /\ fetches[i].served
              /\ fetches' = RemoveAt(fetches, i)
              /\ members' = fetches[i].docs]_vars

\* Everything has resolved, and the collection is a snapshot older than the
\* store: of the calls that were outstanding, the one answered first resolved
\* last.
C12_Witness ==
    /\ Quiescent
    /\ auth.currentUser # Absent
    /\ ~loading
    /\ writes > 0
    /\ members # SortedDocs(store)

TimerFetches == {i \in 1..Len(fetches) : fetches[i].cont = "timer"}

\* The step lets a caller of the kind cont go on after its await; the step
\* is the one in which the fetchMembers call of such a caller returns.
Resumed(cont) == resumes # <<>> /\ Head(resumes) = cont /\ resumes' = Tail(resumes)
Returned(cont) == Len(resumes') > Len(resumes) /\ resumes'[Len(resumes')] = cont

\* C13: the step in which a deleteDoc the store has applied is acknowledged
\* sets delete-succeeded, clears the selected member and schedules the timer,
\* and every applied deleteDoc is acknowledged eventually; delete-succeeded is
\* cleared only by the timer callback going on after its await, which it does
\* only once its getDocs call has settled (resolved or rejected), and it is
\* always cleared eventually.
C13_DeleteSuccessThenRefetch ==
    /\ [][/\ (delOp.phase = "applied" /\ delOp' # delOp) =>
                /\ deleteSuccess'
                /\ selectedMember' = NoMember
                /\ Len(timers') = Len(timers) + 1
          /\ (~deleteSuccess /\ deleteSuccess') => Len(timers') = Len(timers) + 1
          /\ (deleteSuccess /\ ~deleteSuccess') => Resumed("timer")
          /\ Returned("timer") =>
                \E i \in TimerFetches : fetches' = RemoveAt(fetches, i)]_vars
    /\ (delOp.phase = "applied" ~> deleteSuccess)
    /\ (deleteSuccess ~> ~deleteSuccess)

\* After a delete the getDocs call of the timer callback has settled and
\* delete-succeeded has been cleared, the collection still holding the deleted
\* member (the call was rejected, or an older snapshot was applied after it).
C13_Witness ==
    /\ ~deleteSuccess
    /\ fetches = <<>>
    /\ resumes = <<>>
    /\ timers = <<>>
    /\ delOp = Ended("none")
    /\ \E i \in 1..Len(members) : members[i].id \notin StoreIds(store)

\* C14: when the awaited deleteDoc is rejected, the failure alert is raised,
\* no further store call is issued, delete-succeeded is not set and no timer
\* is scheduled, the store, the collection and the selected member are as
\* before, and deletingMember is cleared.
C14_FailedDeleteRestores ==
    [][(delOp.phase = "doc" /\ DeleteSettle(FALSE)) =>
          /\ delOp' = Ended("failed")
          /\ deletingMember' = Absent
          /\ ~deleteSuccess'
          /\ UNCHANGED <<store, members, selectedMember, timers, fetches>>]_vars

\* A deleteDoc was rejected: the failure alert is up, the modal of the member
\* is shown again and its record is still in the store.
C14_Witness ==
    /\ delOp = Ended("failed")
    /\ ModalShown
    /\ selectedMember.id \in StoreIds(store)
    /\ timers = <<>>

\* C15: a step that changes the store removes the record the delete was
\* called for and nothing else: every other document is kept as it is, the
\* documents whose spouseId is the removed id included.
C15_DeleteRemovesOnlyTarget ==
    [][store' # store =>
          /\ delOp.phase = "doc"
          /\ delOp.id \in StoreIds(store)
          /\ delOp.id \notin StoreIds(store')
          /\ store' \subseteq store
          /\ \A d \in store : d.id # delOp.id => d \in store']_vars

\* A member has been deleted and the store still holds its counterpart, whose
\* spouseId names the deleted member.
C15_Witness ==
    /\ deleteSuccess
    /\ \E d \in store :
          /\ d.spouseId # Absent
          /\ d.spouseId \notin StoreIds(store)
          /\ d.spouseId \in IdsOf(members)

\* The members [A, B(parent A), C(parent A, spouse D), D] as ids 1..4.
ExampleFamily ==
    << Member(1, Absent, Absent, NoUrl, Absent),
       Member(2, 1, Absent, NoUrl, Absent),
       Member(3, 1, 4, NoUrl, Absent),
       Member(4, Absent, Absent, NoUrl, Absent) >>

Leaf(m, spouse) == TreeNode(m, <<>>, spouse)

ExampleForest ==
    << TreeNode(ExampleFamily[1],
                << Leaf(ExampleFamily[2], NoMember), Leaf(ExampleFamily[3], ExampleFamily[4]) >>,
                NoMember),
       Leaf(ExampleFamily[4], NoMember) >>

\* C16: when buildTree has returned, the roots are the parentless members in
\* collection order, whether or not some member names them as its spouse; on
\* the example family the forest is [A with children [B, C], D], C's spouse
\* being D.
C16_SpouseStaysRoot ==
    tpc = "done" =>
        /\ [k \in 1..Len(roots) |-> roots[k].member] =
               Pick(members, {i \in 1..Len(members) : members[i].parentId = Absent})
        /\ members = ExampleFamily => roots = ExampleForest

\* buildTree has returned on the example family: D is a root and is also the
\* spouse attached to the node of C.
C16_Witness ==
    /\ tpc = "done"
    /\ members = ExampleFamily
    /\ roots[2].member.id = 4
    /\ roots[1].children[2].spouse.id = 4

RECURSIVE NodesOf(_, _)
NodesOf(forest, i) ==
    IF i > Len(forest) THEN {}
    ELSE {forest[i]} \cup NodesOf(forest[i].children, 1) \cup NodesOf(forest, i + 1)

\* The member of ms a spouseId refers to, NoMember when it is unset or dangling.
SpouseOf(ms, m) ==
    IF m.spouseId # Absent /\ m.spouseId \in IdsOf(ms)
    THEN CHOOSE x \in {ms[i] : i \in 1..Len(ms)} : x.id = m.spouseId
    ELSE NoMember

\* C17: when buildTree has returned, the spouse of every node is the member
\* whose id is the node member's spouseId, and is absent when the spouseId is
\* unset or dangling; the placed set holds the ids of the nodes only; and
\* building the forest again from the same collection gives the same forest.
C17_SpouseResolution ==
    tpc = "done" =>
        /\ \A node \in NodesOf(roots, 1) : node.spouse = SpouseOf(members, node.member)
        /\ processed = {node.member.id : node \in NodesOf(roots, 1)}
        /\ roots = buildTree(members)

\* buildTree has returned a forest with a node whose spouse is resolved but
\* placed nowhere, and a node whose spouseId is dangling.
C17_Witness ==
    /\ tpc = "done"
    /\ \E node \in NodesOf(roots, 1) :
          node.spouse # NoMember /\ node.spouse.id \notin processed
    /\ \E node \in NodesOf(roots, 1) :
          node.member.spouseId # Absent /\ node.spouse = NoMember

\* Following parentId links from m through members of ms reaches a member
\* without parentId (within fuel links).
RECURSIVE ReachesRoot(_, _, _)
ReachesRoot(ms, m, fuel) ==
    IF m.parentId = Absent THEN TRUE
    ELSE IF fuel = 0 \/ m.parentId \notin IdsOf(ms) THEN FALSE
    ELSE ReachesRoot(ms, CHOOSE x \in {ms[i] : i \in 1..Len(ms)} : x.id = m.parentId, fuel - 1)

PosOf(ms, id) == CHOOSE i \in 1..Len(ms) : ms[i].id = id

\* The members of the nodes are in the order they have in ms.
InInputOrder(ms, nodes) ==
    \A a, b \in 1..Len(nodes) :
        a < b => PosOf(ms, nodes[a].member.id) < PosOf(ms, nodes[b].member.id)

\* C19: when buildTree has returned (ids pairwise distinct), every root's
\* member has no parentId, every child's member has the id of its parent
\* node's member as parentId, a member is in some primary position exactly
\* when its parentId links lead to a parentless member, and roots and the
\* children of every node are in collection order.
C19_ForestSound ==
    tpc = "done" =>
        /\ \A k \in 1..Len(roots) : roots[k].member.parentId = Absent
        /\ \A node \in NodesOf(roots, 1) :
              /\ \A k \in 1..Len(node.children) :
                    node.children[k].member.parentId = node.member.id
              /\ InInputOrder(members, node.children)
        /\ InInputOrder(members, roots)
        /\ \A i \in 1..Len(members) :
              (Placements(roots, members[i].id) >= 1) <=>
                  ReachesRoot(members, members[i], Len(members))

\* buildTree has returned a forest in which a root has a child that comes
\* before it in the collection, and the collection also holds a member that
\* is placed nowhere.
C19_Witness ==
    /\ tpc = "done"
    /\ \E k \in 1..Len(roots) :
          \E c \in 1..Len(roots[k].children) :
              PosOf(members, roots[k].children[c].member.id) <
                  PosOf(members, roots[k].member.id)
    /\ \E i \in 1..Len(members) : Placements(roots, members[i].id) = 0

FormFetches == {i \in 1..Len(fetches) : fetches[i].cont = "form"}

FormResumes == {k \in 1..Len(resumes) : resumes[k] = "form"}

SurfaceOpen == showAddForm \/ editingMember # NoMember

\* C18: the step in which the form's onSuccess call runs issues a getDocs
\* call and leaves the add form flag, the editing member and the collection
\* as they are; the editing surface is dismissed only by handleFormSuccess
\* going on after its await, which it does only once such a call has settled
\* (resolved or rejected), or by the user closing the form; the collection
\* only ever changes to the snapshot of a getDocs call that resolves; and
\* after every onSuccess call its getDocs call settles, handleFormSuccess
\* goes on and leaves the surface dismissed.
C18_FormDismissedAfterRefetch ==
    /\ [][/\ Len(formCalls') < Len(formCalls) =>
                /\ fetches' = Append(fetches, Fetch("form"))
                /\ UNCHANGED <<showAddForm, editingMember, members>>
          /\ (SurfaceOpen /\ ~SurfaceOpen') =>
                \/ CloseForm
                \/ Resumed("form")
          /\ Returned("form") =>
                \E i \in FormFetches : fetches' = RemoveAt(fetches, i)
          /\ members' # members =>
                \E i \in 1..Len(fetches) :
                    /\ fetches[i].served
                    /\ fetches' = RemoveAt(fetches, i)
                    /\ members' = fetches[i].docs]_vars
    /\ (formCalls # <<>>) ~> (formCalls = <<>> /\ FormFetches = {} /\ FormResumes = {} /\ ~SurfaceOpen)

\* The form has written a member, the getDocs call of handleFormSuccess has
\* settled and the surface is dismissed, while the collection lacks what was
\* written (the call was rejected, or an older snapshot was applied after it).
C18_Witness ==
    /\ writes > 0
    /\ formCalls = <<>>
    /\ fetches = <<>>
    /\ resumes = <<>>
    /\ ~SurfaceOpen
    /\ members # SortedDocs(store)

====
